---- MODULE Spec2Model ----
(***************************************************************************)
(* A model of the rss cog (src/rss/core.py): the feed fetcher, the entry   *)
(* time extractor, the match-rule evaluator, the update selector of        *)
(* format_and_send, feed discovery, the commands that write a              *)
(* subscription's settings, and the polling loop beside them.              *)
(*                                                                         *)
(* Python values are represented as follows.                               *)
(*   str            a sequence of one-character strings                    *)
(*   tuple / list   a sequence; None and the empty list are both <<>>      *)
(*                  wherever the code only tests their truth value         *)
(*   struct_time    a 9-tuple of integers                                  *)
(*   entry          a record of the fields an entry may carry; a field     *)
(*                  the entry does not have is Absent / NoTime             *)
(***************************************************************************)
EXTENDS Integers, Sequences, FiniteSets, TLC

VARIABLES feeds, call, fn, loop

vars == <<feeds, call, fn, loop>>

---------------------------------------------------------------------------
(* Bounds of the model. *)

\* the longest document (number of entries) a fetch returns
MaxEntries == 3
\* the minutes 0..MaxMinute an entry's time may carry
MaxMinute == 2
\* the longest string a field value or a match term may be
MaxStrLen == 2
\* the most <link> tags, and the most <a> tags, a page has
MaxTags == 2
\* the number of roles of the guild
NumRoles == 5

\* the most roles a feed may mention (len(roles) > 4 is refused)
MaxRoleMentions == 4

---------------------------------------------------------------------------
(* Python's ordering of tuples and lists: lexicographic, a proper prefix   *)
(* being smaller.                                                          *)

Min(a, b) == IF a <= b THEN a ELSE b

TupleLT(a, b) ==
    \/ \E i \in 1..Min(Len(a), Len(b)) :
          /\ \A j \in 1..(i - 1) : a[j] = b[j]
          /\ a[i] < b[i]
    \/ /\ Len(a) < Len(b)
       /\ \A j \in 1..Len(a) : a[j] = b[j]

TupleGT(a, b) == TupleLT(b, a)

TupleLE(a, b) == ~TupleLT(b, a)

\* seq[:n]
Take(s, n) == SubSeq(s, 1, Min(n, Len(s)))

---------------------------------------------------------------------------
(* Strings. *)

Chars == {"a", "A", "b"}

\* str.casefold() on one character
FoldChar(c) == CASE c = "A" -> "a"
                 [] c = "B" -> "b"
                 [] OTHER   -> c

casefold(s) == [i \in 1..Len(s) |-> FoldChar(s[i])]

\* Python's  t in s  for two strings
InStr(t, s) == \E i \in 0..(Len(s) - Len(t)) : SubSeq(s, i + 1, i + Len(t)) = t

RECURSIVE SeqsUpTo(_, _)
SeqsUpTo(S, n) ==
    IF n = 0 THEN {<<>>}
    ELSE LET shorter == SeqsUpTo(S, n - 1)
         IN  shorter \cup {Append(s, x) : s \in {t \in shorter : Len(t) = n - 1}, x \in S}

Strings == SeqsUpTo(Chars, MaxStrLen)

---------------------------------------------------------------------------
(* Entries. *)

\* a key the entry does not have
NoTime == <<>>

\* time.struct_time: (year, mon, mday, hour, min, sec, wday, yday, isdst)
StructTime(y, mi, sec) == <<y, 1, 1, 0, mi, sec, 0, 1, 0>>

\* the values a field of an entry may have
AbsentV   == [kind |-> "absent", str |-> <<>>, list |-> <<>>]
StrV(s)   == [kind |-> "str",    str |-> s,    list |-> <<>>]
ListV(l)  == [kind |-> "list",   str |-> <<>>, list |-> l]
DictV     == [kind |-> "dict",   str |-> <<>>, list |-> <<>>]

Entry(p, u, t, g) ==
    [published_parsed |-> p, updated_parsed |-> u, title |-> t, tags |-> g]

\* an entry with no fields at all
EmptyEntry == Entry(NoTime, NoTime, AbsentV, AbsentV)

\* bool(entry): a FeedParserDict is a dict, false exactly when it is empty
EntryTruthy(e) == e # EmptyEntry

USABLE_FIELDS ==
    {"author", "author_detail", "description", "comments", "content",
     "contributors", "created", "updated", "updated_parsed", "link", "name",
     "published", "published_parsed", "publisher", "publisher_detail",
     "source", "summary", "summary_detail", "tags", "title", "title_detail"}

USABLE_TEXT_FIELDS ==
    {f \in USABLE_FIELDS :
        f \notin {"published", "published_parsed", "updated", "updated_parsed", "created"}}

---------------------------------------------------------------------------
(* Entry Time Extractor. *)

\* the "no time" key, (0,)
Unknown == <<0>>

\* process_entry_time preferring the updated time
process_entry_time_updated_first(x) ==
    IF x.updated_parsed # NoTime THEN Take(x.updated_parsed, 5)
    ELSE IF x.published_parsed # NoTime THEN Take(x.published_parsed, 5)
    ELSE Unknown

process_entry_time(x) ==
    IF x.published_parsed # NoTime THEN Take(x.published_parsed, 5)
    ELSE IF x.updated_parsed # NoTime THEN Take(x.updated_parsed, 5)
    ELSE Unknown

---------------------------------------------------------------------------
(* Match-Rule Evaluator. *)

\* getattr(entry, field_name, None)
GetAttr(entry, field_name) ==
    CASE field_name = "title" -> entry.title
      [] field_name = "tags"  -> entry.tags
      [] OTHER                -> AbsentV

\* bool(d) for a field value
Truthy(d) ==
    CASE d.kind = "absent" -> FALSE
      [] d.kind = "str"    -> d.str # <<>>
      [] d.kind = "list"   -> d.list # <<>>
      [] OTHER             -> TRUE

\* meets_rule with a falsy field passing the rule
meets_rule_falsy_passes(entry, match_rule) ==
    IF match_rule = <<>> THEN TRUE
    ELSE LET d == GetAttr(entry, match_rule[1])
         IN  IF ~Truthy(d) THEN TRUE
             ELSE IF d.kind = "list"
                  THEN \E i \in 1..Len(d.list) : InStr(match_rule[2], d.list[i])
             ELSE IF d.kind = "str" THEN InStr(match_rule[2], casefold(d.str))
             ELSE FALSE

meets_rule(entry, match_rule) ==
    IF match_rule = <<>> THEN TRUE
    ELSE LET field_name == match_rule[1]
             term       == match_rule[2]
             d          == GetAttr(entry, field_name)
         IN  IF ~Truthy(d) THEN FALSE
             ELSE IF d.kind = "list"
                  THEN \E i \in 1..Len(d.list) : InStr(term, d.list[i])
             ELSE IF d.kind = "str" THEN InStr(term, casefold(d.str))
             ELSE FALSE

---------------------------------------------------------------------------
(* Update Selector: the selection of format_and_send. *)

\* Python's None where a list or tuple is expected
None == <<>>

\* [x for x in s if P(x)]
RECURSIVE Filter(_, _, _)
Filter(s, last, match_rule) ==
    IF s = <<>> THEN <<>>
    ELSE LET e    == s[1]
             rest == Filter(Tail(s), last, match_rule)
         IN  IF TupleGT(process_entry_time(e), last) /\ meets_rule(e, match_rule)
             THEN <<e>> \o rest
             ELSE rest

\* sorted(s, key=process_entry_time): ascending and stable. The entry at
\* index i goes after the entries with a smaller key and after those with
\* the same key that stand before it.
SortedPos(s, i) ==
    1 + Cardinality({j \in 1..Len(s) :
            \/ TupleLT(process_entry_time(s[j]), process_entry_time(s[i]))
            \/ /\ process_entry_time(s[j]) = process_entry_time(s[i])
               /\ j < i})

Sorted(s) == [p \in 1..Len(s) |-> s[CHOOSE i \in 1..Len(s) : SortedPos(s, i) = p]]

\* last = tuple((last or (0,))[:5])
CursorOf(last) == Take(IF last = None THEN Unknown ELSE last, 5)

RECURSIVE FilterNoTimeTest(_, _)
FilterNoTimeTest(s, match_rule) ==
    IF s = <<>> THEN <<>>
    ELSE IF meets_rule(s[1], match_rule)
         THEN <<s[1]>> \o FilterNoTimeTest(Tail(s), match_rule)
         ELSE FilterNoTimeTest(Tail(s), match_rule)

\* the selection without the test against the cursor
SelectNormalAll(entries, feed_settings) ==
    Sorted(FilterNoTimeTest(entries, feed_settings.match_req))

\* the selection with >= in place of >
SelectNormalGE(entries, feed_settings) ==
    LET last == CursorOf(feed_settings.last)
    IN  Sorted(Filter(entries, last, feed_settings.match_req)
               \o SelectSeq(FilterNoTimeTest(entries, feed_settings.match_req),
                            LAMBDA e : process_entry_time(e) = last))

\* the selection left in the document's order
SelectNormalUnsorted(entries, feed_settings) ==
    Filter(entries, CursorOf(feed_settings.last), feed_settings.match_req)

\* force = False
SelectNormal(entries, feed_settings) ==
    LET last == CursorOf(feed_settings.last)
    IN  Sorted(Filter(entries, last, feed_settings.match_req))

\* next(filter(meets_rule, response.entries), None); None is <<>> here,
\* the entry found is <<e>>
RECURSIVE FirstMeeting(_, _)
FirstMeeting(entries, match_rule) ==
    IF entries = <<>> THEN <<>>
    ELSE IF meets_rule(entries[1], match_rule) THEN <<entries[1]>>
    ELSE FirstMeeting(Tail(entries), match_rule)

\* force = True: to_send, or <<>> with returned = TRUE for the early return
SelectForced(entries, feed_settings) ==
    LET _to_send == FirstMeeting(entries, feed_settings.match_req)
    IN  IF _to_send = <<>> \/ ~EntryTruthy(_to_send[1])
        THEN [returned |-> TRUE,  to_send |-> <<>>]
        ELSE [returned |-> FALSE, to_send |-> _to_send]

\* last_sent after the loop over to_send: the key of the last entry sent
LastSent(to_send) ==
    IF to_send = <<>> THEN None
    ELSE process_entry_time(to_send[Len(to_send)])

\* format_and_send with last_sent starting from the cursor, not from None
format_and_send_last_sent_from_cursor(response, feed_settings, force) ==
    IF force
    THEN LET sel == SelectForced(response.entries, feed_settings)
         IN  IF sel.returned
             THEN [to_send |-> <<>>, ret |-> None]
             ELSE [to_send |-> sel.to_send, ret |-> LastSent(sel.to_send)]
    ELSE LET to_send == SelectNormal(response.entries, feed_settings)
         IN  [to_send |-> to_send,
              ret |-> IF to_send = <<>> THEN CursorOf(feed_settings.last)
                      ELSE LastSent(to_send)]

format_and_send(response, feed_settings, force) ==
    IF force
    THEN LET sel == SelectForced(response.entries, feed_settings)
         IN  IF sel.returned
             THEN [to_send |-> <<>>, ret |-> None]
             ELSE [to_send |-> sel.to_send, ret |-> LastSent(sel.to_send)]
    ELSE LET to_send == SelectNormal(response.entries, feed_settings)
         IN  [to_send |-> to_send, ret |-> LastSent(to_send)]

---------------------------------------------------------------------------
(* Feed Fetcher. *)

\* what session.get / response.read may do
GetOutcomes == {"ok", "ClientError", "TimeoutError", "Exception"}

NoData == [bozo |-> FALSE, entries |-> <<>>]

NoResponse == [tag |-> "None", bozo |-> FALSE, entries |-> <<>>]

\* the sinbadcogs_rss_fetch event
FetchEvent(data, ret) ==
    [name |-> "sinbadcogs_rss_fetch", listener_version |-> 1,
     response_regenerator |-> data, bozo |-> ret.bozo]

\* fetch_feed with the bozo test left out
fetch_feed_keeps_bozo(get, data) ==
    IF get # "ok"
    THEN [raised |-> FALSE, ret |-> NoResponse, events |-> <<>>]
    ELSE LET ret == [tag |-> "doc", bozo |-> data.bozo, entries |-> data.entries]
         IN  [raised |-> FALSE, ret |-> ret, events |-> <<FetchEvent(data, ret)>>]

\* fetch_feed dispatching the event only for a document it returns
fetch_feed_event_after_bozo_test(get, data) ==
    IF get # "ok"
    THEN [raised |-> FALSE, ret |-> NoResponse, events |-> <<>>]
    ELSE LET ret == [tag |-> "doc", bozo |-> data.bozo, entries |-> data.entries]
         IN  IF ret.bozo
             THEN [raised |-> FALSE, ret |-> NoResponse, events |-> <<>>]
             ELSE [raised |-> FALSE, ret |-> ret, events |-> <<FetchEvent(data, ret)>>]

\* get: the outcome of the GET; data: the body read, given as what
\* feedparser.parse makes of it
fetch_feed(get, data) ==
    IF get \in {"ClientError", "TimeoutError"}
    THEN [raised |-> FALSE, ret |-> NoResponse, events |-> <<>>]
    ELSE IF get = "Exception"
    THEN [raised |-> FALSE, ret |-> NoResponse, events |-> <<>>]
    ELSE LET ret == [tag |-> "doc", bozo |-> data.bozo, entries |-> data.entries]
         IN  IF ret.bozo
             THEN [raised |-> FALSE, ret |-> NoResponse, events |-> <<FetchEvent(data, ret)>>]
             ELSE [raised |-> FALSE, ret |-> ret, events |-> <<FetchEvent(data, ret)>>]

---------------------------------------------------------------------------
(* The inputs the operations are run on. *)

FeedNames == {"news"}

\* the times of the entries of a document
PoolTimes == {StructTime(2024, mi, 30) : mi \in 0..MaxMinute}

\* the entries a document is made of: titled entries with and without a
\* published time, the entry with no fields, an untitled entry with the
\* latest time, and a titled one that has only an updated time, of the
\* year before
EntryPool ==
    {Entry(p, NoTime, StrV(<<"A", "b">>), AbsentV) : p \in {NoTime} \cup PoolTimes}
        \cup {EmptyEntry,
              Entry(StructTime(2024, MaxMinute, 30), NoTime, AbsentV, AbsentV),
              Entry(NoTime, StructTime(2023, MaxMinute, 0), StrV(<<"A", "b">>), AbsentV)}

Docs == SeqsUpTo(EntryPool, MaxEntries)

\* what the parser makes of a body: a document, or a malformed one
DataSet ==
    {[bozo |-> FALSE, entries |-> es] : es \in Docs}
        \cup {[bozo |-> TRUE, entries |-> es] : es \in SeqsUpTo(EntryPool, 1)}

NetOutcomes ==
    {<<g, NoData>> : g \in GetOutcomes \ {"ok"}} \cup {<<"ok", d>> : d \in DataSet}

\* the arguments given to setmatchreq
RuleInputs ==
    {<<"title", <<"a">>>>, <<"title", <<"A">>>>, <<"summary", <<"a">>>>,
     <<"updated", <<"a">>>>, <<"bogus", <<"a">>>>}

---------------------------------------------------------------------------
(* The subscription store and the operations on it. *)

\* the settings of a subscription that was just added
NewSettings == [last |-> None, match_req |-> <<>>, role_mentions |-> <<>>]

NoSettings == NewSettings

Idle ==
    [op |-> "idle", feed |-> "", get |-> "ok", data |-> NoData,
     raised |-> FALSE, response |-> NoResponse, events |-> <<>>,
     feed_settings |-> NoSettings, to_send |-> <<>>, ret |-> None,
     args |-> <<>>, reply |-> ""]

\* no function is being applied
NoFn == [op |-> "none", entry |-> EmptyEntry, match_rule |-> <<>>, done |-> FALSE,
         out |-> FALSE]

\* no cursor write is waiting for the store
NoPending == [feed |-> "", last |-> None, delivered |-> {}]

\* the polling loop before its first cycle. data is the settings read at
\* the start of the cycle, todo the subscriptions still to be processed in
\* it, pending the cursor that format_and_send returned and that is not
\* yet written, copy the dictionary a command holds inside its
\* `async with ... feeds() as feeds` block. The other fields keep what
\* the loop did: the subscriptions attempted and those that failed in the
\* cycle that runs or ended last, the cursor write made last, and per
\* subscription the entries delivered by polls whose cursor was persisted.
NoLoop ==
    [cycle |-> 0, running |-> FALSE, data |-> [n \in {} |-> NewSettings],
     todo |-> <<>>, attempted |-> {}, failed |-> {}, pending |-> NoPending,
     held |-> FALSE, copy |-> [n \in {} |-> NewSettings], cmds |-> 0,
     wrote |-> [feed |-> "", stale |-> FALSE],
     persisted |-> [n \in {} |-> {}], again |-> {}]

Init ==
    /\ feeds = [n \in {} |-> NewSettings]
    /\ call = Idle
    /\ fn = NoFn
    /\ loop = NoLoop

\* the "add feed" command
AddFeed(n) ==
    /\ call.op = "idle"
    /\ n \notin DOMAIN feeds
    /\ feeds' = [m \in DOMAIN feeds \cup {n} |-> IF m = n THEN NewSettings ELSE feeds[m]]
    /\ UNCHANGED <<call, fn, loop>>

\* what a handler leaves behind: the fetch, the selection and the result
CallOf(op, n, get, data, f, r) ==
    [op |-> op, feed |-> n, get |-> get, data |-> data,
     raised |-> f.raised, response |-> f.ret, events |-> f.events,
     feed_settings |-> feeds[n], to_send |-> r.to_send, ret |-> r.ret,
     args |-> <<>>, reply |-> ""]

\* fetch, and format_and_send when the fetch gave a document
FetchAndSend(n, get, data, force) ==
    LET f == fetch_feed(get, data)
    IN  IF f.raised \/ f.ret.tag = "None"
        THEN [f |-> f, r |-> [to_send |-> <<>>, ret |-> None]]
        ELSE [f |-> f, r |-> format_and_send(f.ret, feeds[n], force)]

\* one subscription's turn in the polling loop: the cursor is written
\* when format_and_send returned one
Poll(n) ==
    /\ call.op = "idle"
    /\ n \in DOMAIN feeds
    /\ \E o \in NetOutcomes :
          LET fs == FetchAndSend(n, o[1], o[2], FALSE)
          IN  /\ call' = CallOf("poll", n, o[1], o[2], fs.f, fs.r)
              /\ feeds' = IF fs.r.ret # None
                          THEN [feeds EXCEPT ![n].last = fs.r.ret]
                          ELSE feeds
    /\ UNCHANGED <<fn, loop>>

\* the manual re-post of a feed's current entry: nothing is written
Force(n) ==
    /\ call.op = "idle"
    /\ n \in DOMAIN feeds
    /\ \E o \in NetOutcomes :
          LET fs == FetchAndSend(n, o[1], o[2], TRUE)
          IN  call' = CallOf("force", n, o[1], o[2], fs.f, fs.r)
    /\ UNCHANGED <<feeds, fn, loop>>

\* what a command leaves behind: its arguments and its answer
CmdCall(op, feed_name, args, raised, reply) ==
    [Idle EXCEPT !.op = op, !.feed = feed_name, !.args = args,
                 !.raised = raised, !.reply = reply]

\* setmatchreq accepting every usable field, the time fields included
rss_set_match_req_usable_fields(feed_name, field_and_term) ==
    /\ call.op = "idle"
    /\ IF field_and_term[1] \notin USABLE_FIELDS
       THEN /\ call' = CmdCall("setmatchreq", feed_name, field_and_term, TRUE, "BadArgument")
            /\ UNCHANGED feeds
       ELSE IF feed_name \notin DOMAIN feeds
       THEN /\ call' = CmdCall("setmatchreq", feed_name, field_and_term, FALSE, "No feed named")
            /\ UNCHANGED feeds
       ELSE /\ feeds' = [feeds EXCEPT ![feed_name].match_req = field_and_term]
            /\ call' = CmdCall("setmatchreq", feed_name, field_and_term, FALSE, "tick")
    /\ UNCHANGED <<fn, loop>>

\* setmatchreq <feed_name> <field> <term>
rss_set_match_req(feed_name, field_and_term) ==
    /\ call.op = "idle"
    /\ IF field_and_term[1] \notin USABLE_TEXT_FIELDS
       THEN /\ call' = CmdCall("setmatchreq", feed_name, field_and_term, TRUE, "BadArgument")
            /\ UNCHANGED feeds
       ELSE IF feed_name \notin DOMAIN feeds
       THEN /\ call' = CmdCall("setmatchreq", feed_name, field_and_term, FALSE, "No feed named")
            /\ UNCHANGED feeds
       ELSE /\ feeds' = [feeds EXCEPT ![feed_name].match_req = field_and_term]
            /\ call' = CmdCall("setmatchreq", feed_name, field_and_term, FALSE, "tick")
    /\ UNCHANGED <<fn, loop>>

\* removematchreq without the test for the feed: the entry is made
feed_remove_match_req_no_feed_test(feed_name) ==
    /\ call.op = "idle"
    /\ feeds' = [m \in DOMAIN feeds \cup {feed_name} |->
                    IF m = feed_name
                    THEN IF m \in DOMAIN feeds THEN [feeds[m] EXCEPT !.match_req = <<>>]
                         ELSE NewSettings
                    ELSE feeds[m]]
    /\ call' = CmdCall("removematchreq", feed_name, <<>>, FALSE, "tick")
    /\ UNCHANGED <<fn, loop>>

\* removematchreq <feed_name>
feed_remove_match_req(feed_name) ==
    /\ call.op = "idle"
    /\ IF feed_name \notin DOMAIN feeds
       THEN /\ call' = CmdCall("removematchreq", feed_name, <<>>, FALSE, "No feed named")
            /\ UNCHANGED feeds
       ELSE /\ feeds' = [feeds EXCEPT ![feed_name].match_req = <<>>]
            /\ call' = CmdCall("removematchreq", feed_name, <<>>, FALSE, "tick")
    /\ UNCHANGED <<fn, loop>>

\* the roles of the guild, each given by its position; a role's id is
\* taken to be the same number
Roles == 1..NumRoles

\* [r.id for r in roles], in ascending order
RECURSIVE IdList(_)
IdList(roles) ==
    IF roles = {} THEN <<>>
    ELSE LET top == CHOOSE r \in roles : \A q \in roles : q <= r
         IN  Append(IdList(roles \ {top}), top)

\* max(roles) > ctx.author.top_role
AboveAuthor(roles, top_role) == \E r \in roles : r > top_role

\* rolementions with the limit one too high
feedset_mentions_limit_off_by_one(name, roles, top_role, is_owner) ==
    /\ call.op = "idle"
    /\ IF Cardinality(roles) > MaxRoleMentions + 1
       THEN /\ call' = CmdCall("rolementions", name, IdList(roles), FALSE, "too many roles")
            /\ UNCHANGED feeds
       ELSE IF roles # {} /\ AboveAuthor(roles, top_role) /\ ~is_owner
       THEN /\ call' = CmdCall("rolementions", name, IdList(roles), FALSE, "role above your own")
            /\ UNCHANGED feeds
       ELSE IF name \notin DOMAIN feeds
       THEN /\ call' = CmdCall("rolementions", name, IdList(roles), FALSE, "No feed named")
            /\ UNCHANGED feeds
       ELSE /\ feeds' = [feeds EXCEPT ![name].role_mentions = IdList(roles)]
            /\ call' = CmdCall("rolementions", name, IdList(roles), FALSE,
                               IF roles # {} THEN "roles set" ELSE "roles cleared")
    /\ UNCHANGED <<fn, loop>>

\* rolementions <name> [roles...]; roles is set(non_everyone_roles),
\* top_role the author's top role, is_owner whether the author owns the
\* guild
feedset_mentions(name, roles, top_role, is_owner) ==
    /\ call.op = "idle"
    /\ IF Cardinality(roles) > MaxRoleMentions
       THEN /\ call' = CmdCall("rolementions", name, IdList(roles), FALSE, "too many roles")
            /\ UNCHANGED feeds
       ELSE IF roles # {} /\ AboveAuthor(roles, top_role) /\ ~is_owner
       THEN /\ call' = CmdCall("rolementions", name, IdList(roles), FALSE, "role above your own")
            /\ UNCHANGED feeds
       ELSE IF name \notin DOMAIN feeds
       THEN /\ call' = CmdCall("rolementions", name, IdList(roles), FALSE, "No feed named")
            /\ UNCHANGED feeds
       ELSE /\ feeds' = [feeds EXCEPT ![name].role_mentions = IdList(roles)]
            /\ call' = CmdCall("rolementions", name, IdList(roles), FALSE,
                               IF roles # {} THEN "roles set" ELSE "roles cleared")
    /\ UNCHANGED <<fn, loop>>

\* the handler has returned; the next operation starts from the store
Return ==
    /\ call.op # "idle"
    /\ call' = Idle
    /\ UNCHANGED <<feeds, fn, loop>>

Next ==
    \/ \E n \in FeedNames : AddFeed(n)
    \/ \E n \in FeedNames : Poll(n)
    \/ \E n \in FeedNames : Force(n)
    \/ \E n \in FeedNames, r \in RuleInputs : rss_set_match_req(n, r)
    \/ \E n \in FeedNames : feed_remove_match_req(n)
    \/ Return

Spec == Init /\ [][Next]_vars

---------------------------------------------------------------------------
(* meets_rule applied to one entry and one rule. *)

\* the values of the title of an entry
TitleValues ==
    {AbsentV, DictV, ListV(<<>>), ListV(<<<<"A">>>>), ListV(<<<<"b">>, <<"a", "b">>>>)}
        \cup {StrV(s) : s \in Strings}

RuleEntries ==
    {Entry(NoTime, NoTime, t, g) : t \in TitleValues, g \in {AbsentV, ListV(<<<<"A">>>>)}}

Rules ==
    {<<>>} \cup {<<f, t>> : f \in {"title", "tags", "summary"}, t \in Strings}

InitRule ==
    /\ feeds = [n \in {} |-> NewSettings]
    /\ call = Idle
    /\ loop = NoLoop
    /\ \E e \in RuleEntries, r \in Rules :
          fn = [op |-> "meets_rule", entry |-> e, match_rule |-> r, done |-> FALSE,
                out |-> FALSE]

ApplyMeetsRule ==
    /\ fn.op = "meets_rule"
    /\ ~fn.done
    /\ fn' = [fn EXCEPT !.done = TRUE, !.out = meets_rule(fn.entry, fn.match_rule)]
    /\ UNCHANGED <<feeds, call, loop>>

NextRule == ApplyMeetsRule

SpecRule == InitRule /\ [][NextRule]_vars

---------------------------------------------------------------------------
(* process_entry_time applied to one entry. *)

TimeSet == {StructTime(y, mi, sec) : y \in {0, 2024}, mi \in 0..MaxMinute, sec \in {0, 59}}

TimeEntries ==
    {Entry(p, u, AbsentV, AbsentV) : p \in {NoTime} \cup TimeSet, u \in {NoTime} \cup TimeSet}

InitTime ==
    /\ feeds = [n \in {} |-> NewSettings]
    /\ call = Idle
    /\ loop = NoLoop
    /\ \E e \in TimeEntries :
          fn = [op |-> "process_entry_time", entry |-> e, match_rule |-> <<>>,
                done |-> FALSE, out |-> <<>>]

ApplyEntryTime ==
    /\ fn.op = "process_entry_time"
    /\ ~fn.done
    /\ fn' = [fn EXCEPT !.done = TRUE, !.out = process_entry_time(fn.entry)]
    /\ UNCHANGED <<feeds, call, loop>>

NextTime == ApplyEntryTime

SpecTime == InitTime /\ [][NextTime]_vars

---------------------------------------------------------------------------
(* Properties of the update selector, checked under Spec. *)

\* the time-key of the i-th entry the last call sent
SentKey(i) == process_entry_time(call.to_send[i])

\* the cursor the last call started from, and the stored one after it
CursorBefore == CursorOf(call.feed_settings.last)
CursorAfter == CursorOf(feeds[call.feed].last)

\* a poll that got a document
PolledDoc == call.op = "poll" /\ call.response.tag = "doc"

\* C1: in normal mode no entry is selected whose time-key is less than or
\* equal to the stored cursor.
C1_NoEntryAtOrBelowCursor ==
    call.op = "poll" =>
        \A i \in 1..Len(call.to_send) : ~TupleLE(SentKey(i), CursorBefore)

\* a poll from a real cursor sent something and left out an entry that
\* meets the rule and whose key is the cursor itself
C1_Witness ==
    /\ PolledDoc
    /\ call.to_send # <<>>
    /\ CursorBefore # Unknown
    /\ \E i \in 1..Len(call.response.entries) :
          /\ process_entry_time(call.response.entries[i]) = CursorBefore
          /\ meets_rule(call.response.entries[i], call.feed_settings.match_req)

\* C2: in normal mode the entries are sent in ascending time-key order, the
\* new cursor is the time-key of the latest entry sent, and with nothing
\* sent the cursor is the one the poll started from.
C2_AscendingAndCursorIsLatest ==
    call.op = "poll" =>
        /\ \A i, j \in 1..Len(call.to_send) : i < j => TupleLE(SentKey(i), SentKey(j))
        /\ call.to_send # <<>> =>
              /\ feeds[call.feed].last = SentKey(Len(call.to_send))
              /\ call.ret = feeds[call.feed].last
              /\ \A i \in 1..Len(call.to_send) : TupleLE(SentKey(i), CursorAfter)
        /\ call.to_send = <<>> =>
              /\ call.ret = None
              /\ feeds[call.feed].last = call.feed_settings.last

\* a document listing a later entry before an earlier one, both sent
C2_Witness ==
    /\ PolledDoc
    /\ Len(call.to_send) >= 2
    /\ \E i, j \in 1..Len(call.response.entries) :
          /\ i < j
          /\ TupleGT(process_entry_time(call.response.entries[i]),
                     process_entry_time(call.response.entries[j]))
          /\ TupleGT(process_entry_time(call.response.entries[j]), CursorBefore)
          /\ meets_rule(call.response.entries[i], call.feed_settings.match_req)
          /\ meets_rule(call.response.entries[j], call.feed_settings.match_req)
    /\ feeds[call.feed].last = SentKey(Len(call.to_send))

\* C3: selecting again from the same document with the cursor the poll
\* stored (and the same rule) selects nothing.
C3_SelectAgainIsEmpty ==
    call.op = "poll" =>
        SelectNormal(call.response.entries, feeds[call.feed]) = <<>>

\* a poll under a rule that sent something and stored a new cursor
C3_Witness ==
    /\ PolledDoc
    /\ call.to_send # <<>>
    /\ call.feed_settings.match_req # <<>>
    /\ feeds[call.feed].match_req = call.feed_settings.match_req
    /\ CursorAfter # CursorBefore

\* C4: whatever the step (a poll, a forced re-post, a failed fetch, a
\* command), the stored cursor of a subscription does not move backward.
C4_CursorNeverMovesBackward ==
    [][\A n \in DOMAIN feeds :
          /\ n \in DOMAIN feeds'
          /\ TupleLE(CursorOf(feeds[n].last), CursorOf(feeds'[n].last))]_vars

\* a poll moved a cursor that was already a real one
C4_Witness ==
    /\ call.op = "poll"
    /\ CursorBefore # Unknown
    /\ TupleLT(CursorBefore, CursorAfter)

\* the first entry of the last call's document that meets its rule, as a
\* sequence of at most one entry
FirstQualifying ==
    LET es  == call.response.entries
        idx == {i \in 1..Len(es) : meets_rule(es[i], call.feed_settings.match_req)}
    IN  IF idx = {} THEN <<>>
        ELSE <<es[CHOOSE i \in idx : \A j \in idx : i <= j]>>

\* C5: in forced mode at most one entry is selected, the first entry of the
\* document that meets the rule (the very first entry with no rule),
\* whatever the cursor; when none qualifies nothing is sent and the cursor
\* is unchanged.
C5_ForcedSelectsFirstQualifying ==
    (call.op = "force" /\ call.response.tag = "doc") =>
        /\ Len(call.to_send) <= 1
        /\ call.to_send = FirstQualifying
        /\ call.to_send = <<>> => feeds[call.feed].last = call.feed_settings.last

---------------------------------------------------------------------------
(* Properties of meets_rule, checked under SpecRule. *)

\* C6: for a string-valued field meets_rule is true exactly when the
\* case-folded term is a substring of the case-folded value, whatever the
\* letter case of the two. (The empty string is a falsy value and is left
\* to the rule for falsy fields.)
C6_StringFieldFoldsBoth ==
    (/\ fn.done
     /\ fn.match_rule # <<>>
     /\ GetAttr(fn.entry, fn.match_rule[1]).kind = "str"
     /\ GetAttr(fn.entry, fn.match_rule[1]).str # <<>>) =>
        (fn.out <=> InStr(casefold(fn.match_rule[2]),
                          casefold(GetAttr(fn.entry, fn.match_rule[1]).str)))

\* C7: with no rule meets_rule is true for every entry, the entry with no
\* fields included; with a rule whose field is absent or falsy it is false.
C7_NoRuleTrueFalsyFieldFalse ==
    fn.done =>
        /\ fn.match_rule = <<>> => fn.out = TRUE
        /\ (fn.match_rule # <<>> /\ ~Truthy(GetAttr(fn.entry, fn.match_rule[1]))) =>
              fn.out = FALSE

\* meets_rule has answered for a rule on title and an entry whose title is
\* the empty string
C7_Witness ==
    /\ fn.done
    /\ fn.match_rule # <<>>
    /\ fn.match_rule[1] = "title"
    /\ fn.entry.title = StrV(<<>>)
    /\ fn.out = FALSE

---------------------------------------------------------------------------
(* Properties of process_entry_time, checked under SpecTime. *)

First5(t) == <<t[1], t[2], t[3], t[4], t[5]>>

\* C8: the key is the published time cut to (year, month, day, hour,
\* minute) when there is one, else the updated time cut the same way, else
\* the Unknown sentinel; the sentinel is strictly less than every key cut
\* from a time.
C8_TimeKey ==
    fn.done =>
        LET p == fn.entry.published_parsed
            u == fn.entry.updated_parsed
        IN  /\ p # NoTime => fn.out = First5(p)
            /\ (p = NoTime /\ u # NoTime) => fn.out = First5(u)
            /\ (p = NoTime /\ u = NoTime) => fn.out = Unknown
            /\ fn.out # Unknown =>
                  /\ Len(fn.out) = 5
                  /\ TupleLT(Unknown, fn.out)
                  /\ ~TupleLE(fn.out, Unknown)

\* an entry with both times, differing before the seconds, got the
\* published one
C8_Witness ==
    /\ fn.done
    /\ fn.entry.published_parsed # NoTime
    /\ fn.entry.updated_parsed # NoTime
    /\ First5(fn.entry.published_parsed) # First5(fn.entry.updated_parsed)
    /\ fn.entry.published_parsed[1] = 0
    /\ fn.out = First5(fn.entry.published_parsed)

---------------------------------------------------------------------------
(* Properties checked under Spec, continued. *)

\* C9: a poll delivers an entry with the Unknown key only if the cursor it
\* started from is still the never-seen one; from a real cursor no undated
\* entry is delivered and the cursor stays a real one.
C9_UndatedOnlyFromNeverSeen ==
    (call.op = "poll" /\ CursorBefore # Unknown) =>
        /\ \A i \in 1..Len(call.to_send) : SentKey(i) # Unknown
        /\ CursorAfter # Unknown

\* a poll from a real cursor got a document with an undated entry that
\* meets the rule, and sent other entries
C9_Witness ==
    /\ PolledDoc
    /\ CursorBefore # Unknown
    /\ call.to_send # <<>>
    /\ \E i \in 1..Len(call.response.entries) :
          /\ process_entry_time(call.response.entries[i]) = Unknown
          /\ EntryTruthy(call.response.entries[i])
          /\ meets_rule(call.response.entries[i], call.feed_settings.match_req)

\* C10: fetch_feed does not raise; a failed GET gives None, a bozo document
\* gives None, and a document is returned only, and always, when the GET
\* succeeded and the document is not bozo.
C10_FetchNeverRaises ==
    call.op \in {"poll", "force"} =>
        /\ ~call.raised
        /\ call.get # "ok" => call.response = NoResponse
        /\ (call.get = "ok" /\ call.data.bozo) => call.response = NoResponse
        /\ (call.get = "ok" /\ ~call.data.bozo) =>
              /\ call.response.tag = "doc"
              /\ call.response.entries = call.data.entries
        /\ call.response.tag = "doc" => (call.get = "ok" /\ ~call.response.bozo)

\* the GET gave a bozo document that has an entry, and the poll got None
\* and sent nothing
C10_Witness ==
    /\ call.op = "poll"
    /\ call.get = "ok"
    /\ call.data.bozo
    /\ call.data.entries # <<>>
    /\ call.response = NoResponse
    /\ call.to_send = <<>>

---------------------------------------------------------------------------
(* Feed Discovery: find_feeds applied to one page.                         *)
(* A URL, an href or a type attribute is a sequence of tokens, so that     *)
(* base + href is concatenation and  "xml" in href  is the presence of     *)
(* the token.                                                              *)

\* Python's  w in s  for a word w and a tokenised string s
Contains(w, s) == \E i \in 1..Len(s) : s[i] = w

\* tag.get(attr, None) found nothing
NoAttr == <<>>

FeedXmlHref  == <<"/", "feed", ".", "xml">>
AboutHref    == <<"/", "about">>
OtherRssUrl  == <<"https", "://", "other.org", "/", "rss">>
RssXmlType   == <<"application/", "rss", "+", "xml">>
HtmlType     == <<"text/", "html">>

\* https://example.com/ : urlparse gives scheme https, hostname example.com
ExampleSite == [scheme |-> "https", hostname |-> "example.com"]
\* a site string urlparse finds no scheme and host in
BareSite    == [scheme |-> "", hostname |-> ""]

\* "://".join((scheme, hostname))
BaseOf(site) == <<site.scheme, "://", site.hostname>>

ExampleFeedUrl == BaseOf(ExampleSite) \o FeedXmlHref

\* the <link rel="alternate"> tags and the <a> tags of a page
LinkPool ==
    {[type |-> RssXmlType, href |-> FeedXmlHref],
     [type |-> RssXmlType, href |-> OtherRssUrl],
     [type |-> HtmlType,   href |-> AboutHref],
     [type |-> NoAttr,     href |-> FeedXmlHref]}

AnchorPool == {FeedXmlHref, OtherRssUrl, AboutHref, NoAttr}

\* the URLs at which a feed may be served
WebFeeds == {ExampleFeedUrl, OtherRssUrl}

\* the hrefs the <link> tags give
LinkCandidates(feed_urls) ==
    {feed_urls[i].href : i \in {j \in 1..Len(feed_urls) :
        /\ feed_urls[j].type # NoAttr
        /\ (Contains("rss", feed_urls[j].type) \/ Contains("xml", feed_urls[j].type))
        /\ feed_urls[j].href # NoAttr}}

\* the URLs the <a> tags give
AnchorCandidates(atags, base) ==
    {base \o atags[i] : i \in {j \in 1..Len(atags) :
        /\ atags[j] # NoAttr
        /\ (Contains("xml", atags[j]) \/ Contains("rss", atags[j])
              \/ Contains("feed", atags[j]))}}

\* the candidates that fetch_feed gives a document for; served is the
\* set of URLs that answer the GET with a well-formed feed
Validated(possible_feeds, served) ==
    {u \in possible_feeds :
        fetch_feed(IF u \in served THEN "ok" ELSE "ClientError", NoData).ret.tag = "doc"}

\* find_feeds; the list returned is in no particular order and is given
\* as a set
find_feeds(page, site, served) ==
    LET from_links == IF Len(page.links) > 1 THEN LinkCandidates(page.links) ELSE {}
        from_atags == IF site.scheme # "" /\ site.hostname # ""
                      THEN AnchorCandidates(page.atags, BaseOf(site))
                      ELSE {}
    IN  Validated(from_links \cup from_atags, served)

Pages ==
    {[links |-> l, atags |-> a] :
        l \in SeqsUpTo(LinkPool, MaxTags), a \in SeqsUpTo(AnchorPool, MaxTags)}

InitFind ==
    /\ feeds = [n \in {} |-> NewSettings]
    /\ call = Idle
    /\ loop = NoLoop
    /\ \E pg \in Pages, st \in {ExampleSite, BareSite}, sv \in SUBSET WebFeeds :
          fn = [op |-> "find_feeds", page |-> pg, site |-> st, served |-> sv,
                done |-> FALSE, out |-> {}]

ApplyFindFeeds ==
    /\ fn.op = "find_feeds"
    /\ ~fn.done
    /\ fn' = [fn EXCEPT !.done = TRUE, !.out = find_feeds(fn.page, fn.site, fn.served)]
    /\ UNCHANGED <<feeds, call, loop>>

NextFind == ApplyFindFeeds

SpecFind == InitFind /\ [][NextFind]_vars

\* C11: on a page whose only tag is one <link rel="alternate"> of an
\* rss/xml type with href "/feed.xml", fetched from https://example.com/,
\* find_feeds returns exactly ["https://example.com/feed.xml"] when that
\* URL validates through fetch_feed.
C11_OneLinkTagIsFound ==
    (/\ fn.done
     /\ fn.page.links = <<[type |-> RssXmlType, href |-> FeedXmlHref]>>
     /\ fn.page.atags = <<>>
     /\ fn.site = ExampleSite
     /\ ExampleFeedUrl \in fn.served) =>
        fn.out = {ExampleFeedUrl}

\* an href that carries its own scheme
IsAbsolute(href) == Contains("://", href)

\* the candidates the <link> tags of the applied page gave
FoundInLinks ==
    IF Len(fn.page.links) > 1 THEN LinkCandidates(fn.page.links) ELSE {}

\* C15: candidates are taken from the <a> tags only when the <link> tags
\* gave none, and the page's scheme and host are put before an anchor's
\* href only when it is relative; an absolute href is kept as it is.
C15_AnchorsOnlyAsFallback ==
    fn.done =>
        /\ FoundInLinks # {} => fn.out \subseteq FoundInLinks
        /\ \A i \in 1..Len(fn.page.atags) :
              LET href == fn.page.atags[i]
              IN  (/\ FoundInLinks = {}
                   /\ fn.site = ExampleSite
                   /\ href # NoAttr
                   /\ Contains("xml", href) \/ Contains("rss", href) \/ Contains("feed", href)) =>
                     /\ (IsAbsolute(href) /\ href \in fn.served) => href \in fn.out
                     /\ (~IsAbsolute(href) /\ (BaseOf(fn.site) \o href) \in fn.served) =>
                           (BaseOf(fn.site) \o href) \in fn.out

---------------------------------------------------------------------------
(* Properties of one poll and of the fetch event, checked under Spec. *)

\* C13: a poll writes the stored cursor only when it sent at least one
\* entry; when the fetch fails or nothing is selected the cursor and
\* every other setting of the subscription are as before, and a poll
\* never changes a setting other than the cursor.
C13_CursorWrittenOnlyWhenSent ==
    call.op = "poll" =>
        /\ feeds[call.feed].match_req = call.feed_settings.match_req
        /\ feeds[call.feed].role_mentions = call.feed_settings.role_mentions
        /\ call.response.tag = "None" => feeds[call.feed] = call.feed_settings
        /\ call.to_send = <<>> => feeds[call.feed] = call.feed_settings
        /\ feeds[call.feed].last # call.feed_settings.last => call.to_send # <<>>

\* a poll of a subscription that was never polled with success got a
\* document with entries, none of which was selected
C13_Witness ==
    /\ PolledDoc
    /\ call.response.entries # <<>>
    /\ call.to_send = <<>>
    /\ call.feed_settings.last = None
    /\ feeds[call.feed] = call.feed_settings

\* C14: a fetch_feed call whose GET succeeds emits exactly one
\* sinbadcogs_rss_fetch event, with listener_version 1, the means to parse
\* the body again and the bozo flag, also when the document is bozo and
\* None is returned; a call whose GET fails emits none.
C14_OneEventPerSuccessfulGet ==
    call.op \in {"poll", "force"} =>
        /\ call.get = "ok" =>
              /\ Len(call.events) = 1
              /\ call.events[1].name = "sinbadcogs_rss_fetch"
              /\ call.events[1].listener_version = 1
              /\ call.events[1].response_regenerator = call.data
              /\ call.events[1].bozo = call.data.bozo
        /\ call.get # "ok" => call.events = <<>>

\* a bozo document: None was returned and the event was emitted
C14_Witness ==
    /\ call.op = "force"
    /\ call.get = "ok"
    /\ call.data.bozo
    /\ call.response = NoResponse
    /\ Len(call.events) = 1
    /\ call.events[1].bozo

---------------------------------------------------------------------------
(* The commands on the store of one channel, with a feed name that is      *)
(* never tracked among those they are called with.                         *)

CmdFeedNames == FeedNames \cup {"ghost"}

NextCmd ==
    \/ \E n \in FeedNames : AddFeed(n)
    \/ \E n \in CmdFeedNames, r \in RuleInputs : rss_set_match_req(n, r)
    \/ \E n \in CmdFeedNames : feed_remove_match_req(n)
    \/ \E n \in CmdFeedNames : call.op = "idle" /\
          \E roles \in SUBSET Roles, top_role \in Roles, is_owner \in BOOLEAN :
             feedset_mentions(n, roles, top_role, is_owner)
    \/ Return

SpecCmd == Init /\ [][NextCmd]_vars

\* this step is a command of the given name answering
CommandStep(op) == call.op = "idle" /\ call'.op = op

TimeFields == {"published", "published_parsed", "updated", "updated_parsed", "created"}

\* C16: every stored role_mentions has at most 4 elements, and a
\* rolementions command naming more than 4 distinct roles is answered with
\* the refusal and changes nothing in the store.
C16_AtMostFourRoleMentions ==
    [][/\ \A n \in DOMAIN feeds' : Len(feeds'[n].role_mentions) <= 4
       /\ (CommandStep("rolementions") /\ Len(call'.args) > 4) =>
             /\ call'.reply = "too many roles"
             /\ feeds' = feeds]_vars

\* four roles are stored for a feed
C16_Witness ==
    /\ call.op = "rolementions"
    /\ call.reply = "roles set"
    /\ Len(call.args) = 4
    /\ feeds[call.feed].role_mentions = call.args

\* C17: every stored match_req names a usable text field and never a time
\* field, and setmatchreq with any other field raises the validation
\* error and leaves the store as it was.
C17_MatchReqFieldIsTextField ==
    [][/\ \A n \in DOMAIN feeds' :
             feeds'[n].match_req # <<>> =>
                /\ feeds'[n].match_req[1] \in USABLE_TEXT_FIELDS
                /\ feeds'[n].match_req[1] \notin TimeFields
       /\ (CommandStep("setmatchreq") /\ call'.args[1] \notin (USABLE_FIELDS \ TimeFields)) =>
             /\ call'.raised
             /\ call'.reply = "BadArgument"
             /\ feeds' = feeds]_vars

\* setmatchreq with the field "updated" on a tracked feed that has a rule:
\* the error was raised and the rule is still the stored one
C17_Witness ==
    /\ call.op = "setmatchreq"
    /\ call.args[1] = "updated"
    /\ call.raised
    /\ call.feed \in DOMAIN feeds
    /\ feeds[call.feed].match_req # <<>>

\* a command called with a feed name that is not tracked
OnUntrackedFeed ==
    /\ call.op = "idle"
    /\ call'.op \in {"setmatchreq", "removematchreq", "rolementions"}
    /\ call'.feed \notin DOMAIN feeds

---------------------------------------------------------------------------
(* The polling loop: once per cycle it reads the settings of every         *)
(* tracked subscription and then, one subscription after the other,        *)
(* fetches, selects, delivers and writes the cursor.  A failure of one     *)
(* subscription is caught at that subscription.  setmatchreq,              *)
(* removematchreq and rolementions run between the loop's steps.           *)

\* cycles of the loop
MaxCycles == 2

\* commands run beside the loop
MaxCmds == 1

\* entries of a document served to the loop
MaxLoopEntries == 2

\* the subscriptions of the channel, in the order of the feeds dictionary
LoopOrder == <<"news", "blog">>

LoopFeeds == {LoopOrder[i] : i \in 1..Len(LoopOrder)}

\* the entries the polled feeds publish: a titled entry and an untitled,
\* later one
LoopPool ==
    {Entry(StructTime(2024, 0, 30), NoTime, StrV(<<"A", "b">>), AbsentV),
     Entry(StructTime(2024, 1, 30), NoTime, AbsentV, AbsentV)}

\* a document lists an entry once
LoopDocs ==
    {d \in SeqsUpTo(LoopPool, MaxLoopEntries) :
        \A i, j \in 1..Len(d) : i # j => d[i] # d[j]}

LoopOutcomes ==
    {<<"TimeoutError", NoData>>}
        \cup {<<"ok", [bozo |-> FALSE, entries |-> d]>> : d \in LoopDocs}

InitLoop ==
    /\ feeds = [n \in LoopFeeds |-> NewSettings]
    /\ call = Idle
    /\ fn = NoFn
    /\ loop = [NoLoop EXCEPT !.persisted = [n \in LoopFeeds |-> {}]]

\* the loop wakes up and reads the settings of all subscriptions
CycleStart ==
    /\ ~loop.running
    /\ loop.cycle < MaxCycles
    /\ loop' = [loop EXCEPT !.cycle = loop.cycle + 1,
                            !.running = TRUE,
                            !.data = feeds,
                            !.todo = SelectSeq(LoopOrder, LAMBDA n : n \in DOMAIN feeds),
                            !.attempted = {},
                            !.failed = {},
                            !.wrote = NoLoop.wrote]
    /\ UNCHANGED <<feeds, call, fn>>

\* the subscriptions left for this cycle after one was processed, with an
\* error or without: a failure that ends the cycle
RestAfterErrorEndsCycle(todo, error) == IF error THEN <<>> ELSE Tail(todo)

\* the subscriptions left for this cycle after one was processed, with an
\* error or without
RestAfter(todo, error) == Tail(todo)

\* one subscription's turn, up to the cursor write. sent entries were
\* delivered; with an error the cursor is not written.
Processed(n, sent, error, last) ==
    [loop EXCEPT !.todo = RestAfter(loop.todo, error # ""),
                 !.attempted = loop.attempted \cup {n},
                 !.failed = IF error = "" THEN loop.failed
                            ELSE loop.failed \cup {n},
                 !.pending = IF error = "" /\ last # None
                             THEN [feed |-> n, last |-> last, delivered |-> sent]
                             ELSE NoPending,
                 !.again = IF sent \cap loop.persisted[n] # {}
                           THEN loop.again \cup {n}
                           ELSE loop.again]

\* the fetch, the selection with the settings read at the start of the
\* cycle, and the deliveries, which stop at the first entry whose
\* formatting or delivery raises
LoopFeed(n) ==
    /\ loop.running
    /\ loop.pending = NoPending
    /\ loop.todo # <<>>
    /\ n = Head(loop.todo)
    /\ \E o \in LoopOutcomes :
          LET f == fetch_feed(o[1], o[2])
          IN  IF f.ret.tag = "None"
              THEN loop' = Processed(n, {}, "fetch", None)
              ELSE LET r == format_and_send(f.ret, loop.data[n], FALSE)
                   IN  \/ loop' = Processed(n, {r.to_send[i] : i \in 1..Len(r.to_send)},
                                            "", r.ret)
                       \/ \E k \in 1..Len(r.to_send) :
                             loop' = Processed(n, {r.to_send[i] : i \in 1..(k - 1)},
                                               "send", None)
    /\ UNCHANGED <<feeds, call, fn>>

\* a cursor write that puts back the settings read at the start of the cycle
CursorWriteOfSettings(store, data, n, last) ==
    [store EXCEPT ![n] = [data[n] EXCEPT !.last = last]]

\* the cursor write: the "last" of one subscription
CursorWrite(store, data, n, last) == [store EXCEPT ![n].last = last]

\* the cursor returned by format_and_send is written, once no command
\* holds the store
LoopWrite ==
    /\ loop.pending # NoPending
    /\ ~loop.held
    /\ LET n == loop.pending.feed
       IN  /\ feeds' = CursorWrite(feeds, loop.data, n, loop.pending.last)
           /\ loop' = [loop EXCEPT !.pending = NoPending,
                                   !.wrote = [feed |-> n, stale |-> feeds[n] # loop.data[n]],
                                   !.persisted[n] = loop.persisted[n] \cup loop.pending.delivered]
    /\ UNCHANGED <<call, fn>>

\* the entries were sent and the cursor write fails
LoopWriteFails ==
    /\ loop.pending # NoPending
    /\ loop' = [loop EXCEPT !.pending = NoPending,
                            !.failed = loop.failed \cup {loop.pending.feed}]
    /\ UNCHANGED <<feeds, call, fn>>

\* every subscription had its turn: the loop sleeps
CycleEnd ==
    /\ loop.running
    /\ loop.todo = <<>>
    /\ loop.pending = NoPending
    /\ loop' = [loop EXCEPT !.running = FALSE]
    /\ UNCHANGED <<feeds, call, fn>>

\* setmatchreq and removematchreq enter the block: the feeds dictionary is
\* read and changed, and the command waits for ctx.tick()
EnterFeeds(feed_name, match_req) ==
    /\ ~loop.held
    /\ loop.cmds < MaxCmds
    /\ feed_name \in DOMAIN feeds
    /\ loop' = [loop EXCEPT !.held = TRUE,
                            !.cmds = loop.cmds + 1,
                            !.copy = [feeds EXCEPT ![feed_name].match_req = match_req]]
    /\ UNCHANGED <<feeds, call, fn>>

\* the block ends: the dictionary is written back
ExitFeeds ==
    /\ loop.held
    /\ feeds' = loop.copy
    /\ loop' = [loop EXCEPT !.held = FALSE, !.copy = NoLoop.copy]
    /\ UNCHANGED <<call, fn>>

\* rolementions: nothing is awaited inside its block
SetRoleMentions(name, roles) ==
    /\ ~loop.held
    /\ loop.cmds < MaxCmds
    /\ name \in DOMAIN feeds
    /\ feeds' = [feeds EXCEPT ![name].role_mentions = IdList(roles)]
    /\ loop' = [loop EXCEPT !.cmds = loop.cmds + 1]
    /\ UNCHANGED <<call, fn>>

NextLoop ==
    \/ CycleStart
    \/ \E n \in LoopFeeds : LoopFeed(n)
    \/ LoopWrite
    \/ LoopWriteFails
    \/ CycleEnd
    \/ \E n \in LoopFeeds, m \in {<<>>, <<"title", <<"a">>>>} : EnterFeeds(n, m)
    \/ ExitFeeds
    \/ \E n \in LoopFeeds : SetRoleMentions(n, {1})
    \/ \E n \in LoopFeeds : SetRoleMentions(n, {})

SpecLoop == InitLoop /\ [][NextLoop]_vars

---------------------------------------------------------------------------
(* The polling loop: claims. *)

\* C12: in a cycle of the loop every subscription that was tracked when
\* the cycle began is processed or still to be processed, whatever
\* happened to the ones before it, and when the cycle has ended every one
\* of them was attempted.
C12_EveryTrackedFeedIsAttempted ==
    /\ loop.running =>
          loop.attempted \cup {loop.todo[i] : i \in 1..Len(loop.todo)} = DOMAIN loop.data
    /\ (~loop.running /\ loop.cycle > 0) => loop.attempted = DOMAIN loop.data

\* a cycle has ended in which the first subscription failed and the second
\* one was processed and had its cursor written
C12_Witness ==
    /\ ~loop.running
    /\ loop.cycle > 0
    /\ LoopOrder[1] \in loop.failed
    /\ LoopOrder[2] \in loop.attempted \ loop.failed
    /\ loop.wrote.feed = LoopOrder[2]

\* C18: the step that writes the cursor of a subscription leaves every
\* other subscription as it is in the store, and leaves the match_req and
\* the role_mentions of the subscription itself as they are in the store
\* at that moment, also when a command changed them after the loop read
\* its settings.
C18_CursorWriteChangesOnlyTheCursor ==
    [][(loop.pending # NoPending /\ loop'.pending = NoPending) =>
          LET n == loop.pending.feed
          IN  /\ DOMAIN feeds' = DOMAIN feeds
              /\ \A m \in DOMAIN feeds \ {n} : feeds'[m] = feeds[m]
              /\ feeds'[n].match_req = feeds[n].match_req
              /\ feeds'[n].role_mentions = feeds[n].role_mentions]_vars

\* the cursor of a subscription was written after a command had changed
\* its settings behind the loop's back, and the command's value is there
C18_Witness ==
    /\ loop.wrote.feed \in DOMAIN feeds
    /\ loop.wrote.stale
    /\ LET n == loop.wrote.feed
       IN  /\ feeds[n].last # loop.data[n].last
           /\ \/ feeds[n].match_req # loop.data[n].match_req
              \/ feeds[n].role_mentions # loop.data[n].role_mentions

\* C19: an entry delivered by a poll whose cursor was persisted is not
\* delivered again by any later poll of that subscription; the entries a
\* poll can deliver a second time are those of polls that sent without
\* persisting the cursor.
C19_NoSecondDeliveryAfterPersistedCursor == loop.again = {}

\* two polls of a subscription in a row delivered entries and persisted
\* the cursor
C19_Witness ==
    /\ loop.cycle = 2
    /\ loop.wrote.feed = LoopOrder[1]
    /\ loop.data[LoopOrder[1]].last # None
    /\ loop.persisted[LoopOrder[1]] = LoopPool

====
